---- MODULE Spec2Model ----
(***************************************************************************)
(* Lead-management backend: the leads router (routes/leads.js, held here   *)
(* as src/unnamed/part_003) over the SQLite store created by               *)
(* database/init.js (src/unnamed/part_001).                                *)
(*                                                                         *)
(* JavaScript values are tagged records, SQL values are tagged records,    *)
(* text is a sequence of one-character strings compared as SQLite's BINARY *)
(* collation compares it.                                                  *)
(***************************************************************************)
EXTENDS Integers, Sequences, FiniteSets, TLC

(***************************************************************************)
(* Bounds of the model.                                                    *)
(***************************************************************************)
NTenants == 2
\* requests the server handles, in flight together or one after another
NReq == 2
\* entries a filter document holds at most
MaxEntries == 2
\* clock ticks the model lets pass, and ticks per calendar day
MaxClock == 1
TicksPerDay == 2
\* largest lead id a request names
MaxId == 5

VARIABLES
  leads,    \* the leads table: id -> row
  nextId,   \* the AUTOINCREMENT sequence of the leads table
  now,      \* the clock
  pc,       \* per request slot: where its chain of callbacks stands
  req,      \* per request slot: the request (user, params, query, body)
  loc,      \* per request slot: the handler's local variables
  resp      \* per request slot: the response sent

vars == << leads, nextId, now, pc, req, loc, resp >>

(***************************************************************************)
(* Characters and text.                                                    *)
(***************************************************************************)
\* The characters the model uses, in ASCII order.
Chars ==
  << " ", "%", ",", "-", ".", "0", "1", "2", "3", "4", "5", "6", "7", "8",
     "9", ":", "@", "A", "B", "J", "O", "T", "[", "]", "_", "a", "b", "c",
     "d", "e", "f", "g", "h", "i", "j", "k", "l", "m", "n", "o", "p", "q",
     "r", "s", "t", "u", "v", "w", "x", "y", "z" >>

CharCode(c) == CHOOSE i \in 1..Len(Chars) : Chars[i] = c

DigitChars == << "0", "1", "2", "3", "4", "5", "6", "7", "8", "9" >>

IsDigit(c) == \E i \in 1..10 : DigitChars[i] = c

DigitVal(c) == (CHOOSE i \in 1..10 : DigitChars[i] = c) - 1

RECURSIVE Digits(_)
\* decimal text of a natural number
Digits(n) ==
  IF n < 10 THEN << DigitChars[n + 1] >>
  ELSE Digits(n \div 10) \o << DigitChars[(n % 10) + 1] >>

IntText(n) == IF n < 0 THEN << "-" >> \o Digits(0 - n) ELSE Digits(n)

RECURSIVE ParseNat(_)
ParseNat(s) ==
  IF Len(s) = 0 THEN 0
  ELSE 10 * ParseNat(SubSeq(s, 1, Len(s) - 1)) + DigitVal(s[Len(s)])

\* text that SQLite's NUMERIC affinity turns into an integer
LooksInt(s) == Len(s) > 0 /\ \A i \in 1..Len(s) : IsDigit(s[i])

LowerChar(c) ==
  CASE c = "A" -> "a"
    [] c = "B" -> "b"
    [] c = "J" -> "j"
    [] c = "O" -> "o"
    [] c = "T" -> "t"
    [] OTHER -> c

ToLower(s) == [i \in 1..Len(s) |-> LowerChar(s[i])]

RECURSIVE TextCmp(_, _)
\* memcmp order of two texts: -1, 0 or 1
TextCmp(a, b) ==
  IF Len(a) = 0 THEN (IF Len(b) = 0 THEN 0 ELSE 0 - 1)
  ELSE IF Len(b) = 0 THEN 1
  ELSE IF CharCode(a[1]) < CharCode(b[1]) THEN 0 - 1
  ELSE IF CharCode(a[1]) > CharCode(b[1]) THEN 1
  ELSE TextCmp(Tail(a), Tail(b))

(***************************************************************************)
(* JavaScript values (what JSON.parse and the request body can hold).      *)
(***************************************************************************)
Undef == [t |-> "undefined"]
Null == [t |-> "null"]
Num(n) == [t |-> "number", n |-> n]
Str(s) == [t |-> "string", s |-> s]
\* an operator name: a string read only by ===
Op(name) == [t |-> "string", lit |-> name]
Bool(b) == [t |-> "boolean", b |-> b]
Arr(a) == [t |-> "array", a |-> a]
\* an object with the two properties a filter entry carries
Entry(op, v) == [t |-> "object", operator |-> op, value |-> v]
\* an object whose own properties are the filter field names
Doc(f) == [t |-> "doc", f |-> f]

\* JavaScript truthiness, as `if (x)` and `!x` see it
Truthy(v) ==
  CASE v.t = "undefined" -> FALSE
    [] v.t = "null" -> FALSE
    [] v.t = "number" -> v.n # 0
    [] v.t = "string" -> ("lit" \in DOMAIN v) \/ Len(v.s) > 0
    [] v.t = "boolean" -> v.b
    [] OTHER -> TRUE

\* filters.<name>: a property read on whatever JSON.parse returned
Field(filters, name) ==
  IF filters.t = "doc" /\ name \in DOMAIN filters.f THEN filters.f[name]
  ELSE Undef

\* x.operator and x.value on a truthy x
Operator(x) == IF x.t = "object" THEN x.operator ELSE Undef
Value(x) == IF x.t = "object" THEN x.value ELSE Undef

IsArray(v) == v.t = "array"

\* value[i], 0-based, on an array
At(v, i) == IF i + 1 <= Len(v.a) THEN v.a[i + 1] ELSE Undef

RECURSIVE JoinComma(_)
RECURSIVE ToStr(_)
\* String(v), as a template literal converts v
ToStr(v) ==
  CASE v.t = "undefined" -> << "u", "n", "d", "e", "f", "i", "n", "e", "d" >>
    [] v.t = "null" -> << "n", "u", "l", "l" >>
    [] v.t = "number" -> IntText(v.n)
    [] v.t = "string" -> v.s
    [] v.t = "boolean" ->
         IF v.b THEN << "t", "r", "u", "e" >> ELSE << "f", "a", "l", "s", "e" >>
    [] v.t = "array" -> JoinComma(v.a)
    [] OTHER ->
         << "[", "o", "b", "j", "e", "c", "t", " ", "O", "b", "j", "e", "c", "t", "]" >>

\* Array.prototype.join(","): null and undefined elements are empty
JoinComma(a) ==
  IF Len(a) = 0 THEN << >>
  ELSE LET h == IF a[1].t \in {"undefined", "null"} THEN << >> ELSE ToStr(a[1])
       IN  IF Len(a) = 1 THEN h ELSE h \o << "," >> \o JoinComma(Tail(a))

(***************************************************************************)
(* SQL values and the store's comparison rules.                            *)
(***************************************************************************)
SNull == [k |-> "null"]
SInt(n) == [k |-> "int", n |-> n]
SText(s) == [k |-> "text", s |-> s]

\* what the driver binds for a JavaScript parameter; an undefined parameter
\* is left unbound, which SQLite reads as NULL
Bind(v) ==
  CASE v.t = "undefined" -> SNull
    [] v.t = "null" -> SNull
    [] v.t = "number" -> SInt(v.n)
    [] v.t = "string" -> SText(v.s)
    [] v.t = "boolean" -> SInt(IF v.b THEN 1 ELSE 0)
    [] OTHER -> SText(ToStr(v))

\* the declared type of each column of the leads table
Affinity(col) ==
  IF col \in {"email", "company", "city", "status", "source",
              "first_name", "last_name", "phone", "state"}
  THEN "TEXT"
  ELSE IF col \in {"id", "user_id", "score"} THEN "INTEGER"
  ELSE IF col = "lead_value" THEN "REAL"
  ELSE "NUMERIC"

\* the column's affinity applied to the operand it is compared with or that
\* is stored into it
ApplyAffinity(col, sv) ==
  IF Affinity(col) = "TEXT"
  THEN IF sv.k = "int" THEN SText(IntText(sv.n)) ELSE sv
  ELSE IF sv.k = "text" /\ LooksInt(sv.s) THEN SInt(ParseNat(sv.s)) ELSE sv

\* order of two non-NULL values: integers before text
SqlCmp(a, b) ==
  IF a.k = "int" /\ b.k = "int"
  THEN (IF a.n < b.n THEN 0 - 1 ELSE IF a.n > b.n THEN 1 ELSE 0)
  ELSE IF a.k = "int" THEN 0 - 1
  ELSE IF b.k = "int" THEN 1
  ELSE TextCmp(a.s, b.s)

SqlText(sv) == IF sv.k = "int" THEN IntText(sv.n) ELSE sv.s

RECURSIVE LikeMatch(_, _)
\* LIKE: % any run, _ any one character, ASCII letters without case
LikeMatch(p, s) ==
  IF Len(p) = 0 THEN Len(s) = 0
  ELSE IF p[1] = "%"
       THEN LikeMatch(Tail(p), s) \/ (Len(s) > 0 /\ LikeMatch(p, Tail(s)))
       ELSE /\ Len(s) > 0
            /\ (p[1] = "_" \/ LowerChar(p[1]) = LowerChar(s[1]))
            /\ LikeMatch(Tail(p), Tail(s))

\* DATE(x): the calendar day of a timestamp text.  A timestamp is written
\* d- s (CURRENT_TIMESTAMP), d-Ts (toISOString) or d- (a date alone), d and
\* s digits; other text is NULL, a number is a Julian day
DateOf(sv) ==
  CASE sv.k = "null" -> SNull
    [] sv.k = "int" -> SText(<< "J" >> \o IntText(sv.n))
    [] OTHER ->
         IF /\ Len(sv.s) \in {2, 4}
            /\ IsDigit(sv.s[1])
            /\ sv.s[2] = "-"
            /\ Len(sv.s) = 4 => (sv.s[3] \in {" ", "T"} /\ IsDigit(sv.s[4]))
         THEN SText(<< sv.s[1], "-" >>)
         ELSE SNull

(***************************************************************************)
(* buildWhereClause: the filter predicate compiler.  The clause text is    *)
(* the sequence of its fragments; a fragment names its column, its         *)
(* operator and the number n of ? placeholders it holds.                   *)
(***************************************************************************)
Frag(col, op, n) == [col |-> col, op |-> op, n |-> n]

NoClause == [w |-> << >>, p |-> << >>]

\* one appended fragment with its n placeholders, and the values pushed with it
Clause(col, op, n, ps) == [w |-> << Frag(col, op, n) >>, p |-> ps]

OpIs(x, name) == Operator(x) = Op(name)

\* `%${value}%`
Pattern(v) == Str(<< "%" >> \o ToStr(v) \o << "%" >>)

\* TextClause with a plain else for its second branch
TextClauseElse(filters, col) ==
  LET x == Field(filters, col)
  IN  IF ~Truthy(x) THEN NoClause
      ELSE IF OpIs(x, "equals") THEN Clause(col, "=", 1, << Value(x) >>)
      ELSE Clause(col, "LIKE", 1, << Pattern(Value(x)) >>)

\* email, company, city: equals and contains
TextClause(filters, col) ==
  LET x == Field(filters, col)
  IN  IF ~Truthy(x) THEN NoClause
      ELSE IF OpIs(x, "equals") THEN Clause(col, "=", 1, << Value(x) >>)
      ELSE IF OpIs(x, "contains") THEN Clause(col, "LIKE", 1, << Pattern(Value(x)) >>)
      ELSE NoClause

\* EnumClause with a single ? in its IN list however many values it pushes
EnumClauseOnePlaceholder(filters, col) ==
  LET x == Field(filters, col)
  IN  IF ~Truthy(x) THEN NoClause
      ELSE IF OpIs(x, "equals") THEN Clause(col, "=", 1, << Value(x) >>)
      ELSE IF OpIs(x, "in") /\ IsArray(Value(x)) THEN Clause(col, "IN", 1, Value(x).a)
      ELSE NoClause

\* status, source: equals and in
EnumClause(filters, col) ==
  LET x == Field(filters, col)
  IN  IF ~Truthy(x) THEN NoClause
      ELSE IF OpIs(x, "equals") THEN Clause(col, "=", 1, << Value(x) >>)
      ELSE IF OpIs(x, "in") /\ IsArray(Value(x)) THEN Clause(col, "IN", Len(Value(x).a), Value(x).a)
      ELSE NoClause

\* NumberClause with the two bounds of between pushed in the wrong order
NumberClauseSwapped(filters, col) ==
  LET x == Field(filters, col)
  IN  IF ~Truthy(x) THEN NoClause
      ELSE IF OpIs(x, "equals") THEN Clause(col, "=", 1, << Value(x) >>)
      ELSE IF OpIs(x, "gt") THEN Clause(col, ">", 1, << Value(x) >>)
      ELSE IF OpIs(x, "lt") THEN Clause(col, "<", 1, << Value(x) >>)
      ELSE IF OpIs(x, "between") /\ IsArray(Value(x))
           THEN Clause(col, "BETWEEN", 2, << At(Value(x), 1), At(Value(x), 0) >>)
      ELSE NoClause

\* score, lead_value: equals, gt, lt and between
NumberClause(filters, col) ==
  LET x == Field(filters, col)
  IN  IF ~Truthy(x) THEN NoClause
      ELSE IF OpIs(x, "equals") THEN Clause(col, "=", 1, << Value(x) >>)
      ELSE IF OpIs(x, "gt") THEN Clause(col, ">", 1, << Value(x) >>)
      ELSE IF OpIs(x, "lt") THEN Clause(col, "<", 1, << Value(x) >>)
      ELSE IF OpIs(x, "between") /\ IsArray(Value(x))
           THEN Clause(col, "BETWEEN", 2, << At(Value(x), 0), At(Value(x), 1) >>)
      ELSE NoClause

\* created_at, last_activity_at: on, before, after and between
DateClause(filters, col) ==
  LET x == Field(filters, col)
  IN  IF ~Truthy(x) THEN NoClause
      ELSE IF OpIs(x, "on") THEN Clause(col, "DATE=", 1, << Value(x) >>)
      ELSE IF OpIs(x, "before") THEN Clause(col, "<", 1, << Value(x) >>)
      ELSE IF OpIs(x, "after") THEN Clause(col, ">", 1, << Value(x) >>)
      ELSE IF OpIs(x, "between") /\ IsArray(Value(x))
           THEN Clause(col, "BETWEEN", 2, << At(Value(x), 0), At(Value(x), 1) >>)
      ELSE NoClause

\* is_qualified: present (not undefined) adds the clause
BoolClause(filters) ==
  LET x == Field(filters, "is_qualified")
  IN  IF x # Undef
      THEN Clause("is_qualified", "=", 1, << Num(IF Truthy(x) THEN 1 ELSE 0) >>)
      ELSE NoClause

\* the order in which buildWhereClause visits the fields
FilterClauses(filters) ==
  << TextClause(filters, "email"), TextClause(filters, "company"),
     TextClause(filters, "city"), EnumClause(filters, "status"),
     EnumClause(filters, "source"), NumberClause(filters, "score"),
     NumberClause(filters, "lead_value"), DateClause(filters, "created_at"),
     DateClause(filters, "last_activity_at"), BoolClause(filters) >>

RECURSIVE Append2(_, _)
\* whereClause += ..., params.push(...) for each clause in turn
Append2(acc, cs) ==
  IF Len(cs) = 0 THEN acc
  ELSE Append2([w |-> acc.w \o cs[1].w, p |-> acc.p \o cs[1].p], Tail(cs))

\* a predicate that starts without the tenant-scope clause
TenantScopeMissing(userId) == NoClause

TenantScope(userId) == Clause("user_id", "=", 1, << userId >>)

buildWhereClause(filters, userId) ==
  LET scope == TenantScope(userId)
      built == IF ~Truthy(filters) THEN scope
               ELSE Append2(scope, FilterClauses(filters))
  IN  [whereClause |-> built.w, params |-> built.p]

(***************************************************************************)
(* The store's evaluation of a compiled predicate against one row.         *)
(***************************************************************************)
\* the k-th bound parameter; a placeholder without a value is NULL
ParamAt(params, k) == IF k <= Len(params) THEN Bind(params[k]) ELSE SNull

\* one fragment on one row, its first placeholder being number k:
\* "T", "F" or "N" (SQL NULL)
FragEval(fr, row, params, k) ==
  LET c == row[fr.col]
      a == ApplyAffinity(fr.col, ParamAt(params, k))
      b == ApplyAffinity(fr.col, ParamAt(params, k + 1))
      tf(x) == IF x THEN "T" ELSE "F"
  IN  CASE fr.op = "=" ->
             IF c.k = "null" \/ a.k = "null" THEN "N" ELSE tf(SqlCmp(c, a) = 0)
        [] fr.op = "!=" ->
             IF c.k = "null" \/ a.k = "null" THEN "N" ELSE tf(SqlCmp(c, a) # 0)
        [] fr.op = ">" ->
             IF c.k = "null" \/ a.k = "null" THEN "N" ELSE tf(SqlCmp(c, a) > 0)
        [] fr.op = "<" ->
             IF c.k = "null" \/ a.k = "null" THEN "N" ELSE tf(SqlCmp(c, a) < 0)
        [] fr.op = "BETWEEN" ->
             \* c >= a AND c <= b in three-valued logic
             LET ge == IF c.k = "null" \/ a.k = "null" THEN "N"
                       ELSE tf(SqlCmp(c, a) >= 0)
                 le == IF c.k = "null" \/ b.k = "null" THEN "N"
                       ELSE tf(SqlCmp(c, b) <= 0)
             IN  IF ge = "F" \/ le = "F" THEN "F"
                 ELSE IF ge = "N" \/ le = "N" THEN "N" ELSE "T"
        [] fr.op = "IN" ->
             LET vs == {ApplyAffinity(fr.col, ParamAt(params, j)) :
                          j \in k..(k + fr.n - 1)}
             IN  IF fr.n = 0 THEN "F"
                 ELSE IF c.k = "null" THEN "N"
                 ELSE IF \E v \in vs : v.k # "null" /\ SqlCmp(c, v) = 0 THEN "T"
                 ELSE IF \E v \in vs : v.k = "null" THEN "N" ELSE "F"
        [] fr.op = "LIKE" ->
             LET pat == ParamAt(params, k)
             IN  IF c.k = "null" \/ pat.k = "null" THEN "N"
                 ELSE tf(LikeMatch(SqlText(pat), SqlText(c)))
        [] fr.op = "DATE=" ->
             LET dc == DateOf(c)
                 dp == DateOf(ParamAt(params, k))
             IN  IF dc.k = "null" \/ dp.k = "null" THEN "N"
                 ELSE tf(SqlCmp(dc, dp) = 0)
        [] OTHER -> "N"

RECURSIVE WhereFrom(_, _, _, _)
\* the conjunction of the fragments from the first on, placeholders from k
WhereFrom(w, row, params, k) ==
  IF Len(w) = 0 THEN TRUE
  ELSE /\ FragEval(w[1], row, params, k) = "T"
       /\ WhereFrom(Tail(w), row, params, k + w[1].n)

\* whether the row satisfies the WHERE clause
Matches(whereClause, params, row) == WhereFrom(whereClause, row, params, 1)

RECURSIVE Placeholders(_)
\* the number of ? in the clause text
Placeholders(w) == IF Len(w) = 0 THEN 0 ELSE w[1].n + Placeholders(Tail(w))

(***************************************************************************)
(* The leads table.                                                        *)
(***************************************************************************)
Tenants == 1..NTenants
Reqs == 1..NReq

Sources ==
  { << "w", "e", "b", "s", "i", "t", "e" >>,
    << "f", "a", "c", "e", "b", "o", "o", "k", "_", "a", "d", "s" >>,
    << "g", "o", "o", "g", "l", "e", "_", "a", "d", "s" >>,
    << "r", "e", "f", "e", "r", "r", "a", "l" >>,
    << "e", "v", "e", "n", "t", "s" >>,
    << "o", "t", "h", "e", "r" >> }

Statuses ==
  { << "n", "e", "w" >>,
    << "c", "o", "n", "t", "a", "c", "t", "e", "d" >>,
    << "q", "u", "a", "l", "i", "f", "i", "e", "d" >>,
    << "l", "o", "s", "t" >>,
    << "w", "o", "n" >> }

Website == << "w", "e", "b", "s", "i", "t", "e" >>
Referral == << "r", "e", "f", "e", "r", "r", "a", "l" >>
StatusNew == << "n", "e", "w" >>
StatusWon == << "w", "o", "n" >>

EmailA == << "a", "@", "x", ".", "c" >>
EmailB == << "b", "@", "x", ".", "c" >>
EmailUpperA == << "A", "@", "x", ".", "c" >>

DayChar(n) == DigitChars[(n \div TicksPerDay) + 1]
SecChar(n) == DigitChars[(n % TicksPerDay) + 1]

\* CURRENT_TIMESTAMP at tick n
SqlNow(n) == SText(<< DayChar(n), "-", " ", SecChar(n) >>)

\* new Date().toISOString() at tick n
IsoNow(n) == Str(<< DayChar(n), "-", "T", SecChar(n) >>)

\* the value a column holds after a JavaScript parameter is written to it
Stored(col, v) == ApplyAffinity(col, Bind(v))

NotNullCols == {"user_id", "first_name", "last_name", "email", "source", "status"}

\* NOT NULL and CHECK constraints of the leads table on one row
RowChecksOk(row) ==
  /\ \A c \in NotNullCols : row[c].k # "null"
  /\ row.source.k = "text" /\ row.source.s \in Sources
  /\ row.status.k = "text" /\ row.status.s \in Statuses
  /\ row.score.k # "null" =>
       (SqlCmp(row.score, SInt(0)) >= 0 /\ SqlCmp(row.score, SInt(100)) <= 0)

\* UNIQUE(user_id, email) on a table
UniqueOk(t) ==
  \A i, j \in DOMAIN t :
    (i # j) => ~(t[i].user_id = t[j].user_id /\ t[i].email = t[j].email)

\* the table with row r put at id i
WithRow(t, i, r) == [k \in (DOMAIN t) \cup {i} |-> IF k = i THEN r ELSE t[k]]

\* the table without id i
WithoutRow(t, i) == [k \in (DOMAIN t) \ {i} |-> t[k]]

\* the rows a table holds before the server starts: tenant 1 owns leads
\* 1, 2 and 4, tenant 2 owns lead 3 under the email of lead 1
SeedRow(id, user, email, company, status, source, score, value, qual, created, active) ==
  [ id |-> SInt(id), user_id |-> SInt(user),
    first_name |-> SText(<< "f" >>), last_name |-> SText(<< "l" >>),
    email |-> SText(email), phone |-> SNull, company |-> company,
    city |-> SNull, state |-> SNull, source |-> SText(source),
    status |-> SText(status), score |-> score, lead_value |-> value,
    last_activity_at |-> active, is_qualified |-> SInt(qual),
    created_at |-> SText(created), updated_at |-> SText(created) ]

SeedLeads ==
  (1 :> SeedRow(1, 1, EmailA, SText(<< "a", "b" >>), StatusNew, Website,
                SInt(1), SInt(1), 0, << "0", "-", " ", "0" >>,
                SText(<< "0", "-", "T", "0" >>)))
  @@ (2 :> SeedRow(2, 1, EmailB, SNull, StatusWon, Referral,
                   SInt(2), SInt(3), 1, << "0", "-", " ", "1" >>,
                   SText(<< "1", "-", "T", "0" >>)))
  @@ (3 :> SeedRow(3, 2, EmailA, SText(<< "a", "b" >>), StatusNew, Website,
                   SInt(2), SInt(2), 1, << "0", "-", " ", "1" >>,
                   SText(<< "0", "-", "T", "1" >>)))
  @@ (4 :> SeedRow(4, 1, << "c", "@", "x", ".", "c" >>, SText(<< "B" >>),
                   StatusNew, Website, SInt(3), SInt(2), 0,
                   << "1", "-", " ", "0" >>, SText(<< "1", "-", "T", "0" >>)))

(***************************************************************************)
(* Responses.                                                              *)
(***************************************************************************)
NoResp == [status |-> 0]

\* the err a store callback receives
NoErr == [code |-> "OK"]
IoErr == [code |-> "SQLITE_IOERR"]
ConstraintErr(what) == [code |-> "SQLITE_CONSTRAINT", constraint |-> what]

Json(status, body) == [status |-> status, body |-> body]

Err(error, message) == [error |-> error, message |-> message]

\* an answer of success where the lead was not found
FoundAnyway == Json(200, [message |-> "Lead updated successfully"])

\* what get, update and delete answer for a lead they do not find
NotFound == Json(404, Err("Lead not found", "Lead does not exist"))

\* a store-error response that also carries a page number
DbErrorWithPage(message) ==
  Json(500, [error |-> "Database error", message |-> message, page |-> 1])

DbError(message) == Json(500, Err("Database error", message))

ValidationError == Json(400, [error |-> "Validation Error"])

\* A request reaches the handler of slot r; the slots fill in order.
Arrives(r) ==
  /\ pc[r] = "idle"
  /\ \A q \in 1..(r - 1) : pc[q] # "idle"

(***************************************************************************)
(* GET /: list with pagination and filters.                                *)
(***************************************************************************)
\* isInt({min, max}) of express-validator on a query string
IsIntIn(v, lo, hi) ==
  /\ v.t = "string"
  /\ LooksInt(v.s)
  /\ ParseNat(v.s) >= lo
  /\ (hi >= 0 => ParseNat(v.s) <= hi)

\* a parse whose fallback is 1 whatever the default
ParseIntOrOne(v, dflt) ==
  IF v.t = "string" /\ LooksInt(v.s) /\ ParseNat(v.s) # 0 THEN ParseNat(v.s)
  ELSE 1

\* parseInt(x) || dflt on a validated query parameter
ParseIntOr(v, dflt) ==
  IF v.t = "string" /\ LooksInt(v.s) /\ ParseNat(v.s) # 0 THEN ParseNat(v.s)
  ELSE dflt

\* validators that let every page and limit through
ListQueryUnchecked(q) == TRUE

\* query('page') and query('limit') validators
ListQueryValid(q) ==
  /\ q.page # Undef => IsIntIn(q.page, 1, 0 - 1)
  /\ q.limit # Undef => IsIntIn(q.limit, 1, 100)

\* the ids of the rows the predicate selects
Matching(t, whereClause, params) ==
  {i \in DOMAIN t : Matches(whereClause, params, t[i])}

\* a page count that rounds down and adds one
CeilDivFloorPlusOne(total, limit) == (total \div limit) + 1

\* Math.ceil(total / limit)
CeilDiv(total, limit) == (total + limit - 1) \div limit

\* row i comes before row j in the scan of the UNIQUE(user_id, email) index,
\* which the search on user_id = ? walks
ScansBefore(t, i, j) ==
  \/ SqlCmp(t[i].user_id, t[j].user_id) < 0
  \/ /\ SqlCmp(t[i].user_id, t[j].user_id) = 0
     /\ SqlCmp(t[i].email, t[j].email) < 0

\* ORDER BY created_at DESC of the ids in S: newest first, and rows of one
\* created_at in the order the scan met them
Orderings(t, S) ==
  {o \in [1..Cardinality(S) -> S] :
     /\ \A i, j \in 1..Cardinality(S) : i # j => o[i] # o[j]
     /\ \A i \in 1..(Cardinality(S) - 1) :
          \/ SqlCmp(t[o[i]].created_at, t[o[i + 1]].created_at) > 0
          \/ /\ SqlCmp(t[o[i]].created_at, t[o[i + 1]].created_at) = 0
             /\ ScansBefore(t, o[i], o[i + 1])}

\* a page that always starts at the first row
PageNoOffset(o, limit, offset) ==
  SubSeq(o, 1, IF limit < 0 \/ limit > Len(o) THEN Len(o) ELSE limit)

\* LIMIT limit OFFSET offset of an ordered result; a negative limit is none
Page(o, limit, offset) ==
  LET from == IF offset < 0 THEN 0 ELSE offset
      to == IF limit < 0 \/ from + limit > Len(o) THEN Len(o) ELSE from + limit
  IN  SubSeq(o, from + 1, to)

\* the count query fails when it is handed more values than it has ?
CountErr(whereClause, params) == Len(params) > Placeholders(whereClause)

\* the row query fails when it is handed more values than it has ?, or when
\* the value at LIMIT ? or OFFSET ? is no integer
RowsErr(whereClause, queryParams) ==
  LET k == Placeholders(whereClause)
  IN  \/ Len(queryParams) > k + 2
      \/ ParamAt(queryParams, k + 1).k # "int"
      \/ ParamAt(queryParams, k + 2).k # "int"

\* The handler up to its response or its first store callback: validation,
\* page/limit/offset, JSON.parse of filters, buildWhereClause, and the count
\* query with its callback, which issues the row query.
ListLeads(r, Queries) ==
  /\ Arrives(r)
  /\ \E user \in Tenants, q \in Queries, fail \in BOOLEAN :
       LET page == ParseIntOr(q.page, 1)
           limit == ParseIntOr(q.limit, 20)
           offset == (page - 1) * limit
           filters == IF Truthy(q.filters) THEN q.filters.json ELSE Null
           built == buildWhereClause(filters, Num(user))
           total == Cardinality(Matching(leads, built.whereClause, built.params))
       IN  /\ req' = [req EXCEPT ![r] = [kind |-> "list", user |-> user, query |-> q]]
           /\ IF ~ListQueryValid(q)
              THEN /\ resp' = [resp EXCEPT ![r] = ValidationError]
                   /\ pc' = [pc EXCEPT ![r] = "done"]
                   /\ loc' = [loc EXCEPT ![r] = [step |-> "validate", err |-> NoErr]]
              ELSE IF Truthy(q.filters) /\ q.filters.t = "badjson"
              THEN /\ resp' = [resp EXCEPT ![r] =
                                 Json(400, Err("Invalid filters", "Filters must be valid JSON"))]
                   /\ pc' = [pc EXCEPT ![r] = "done"]
                   /\ loc' = [loc EXCEPT ![r] = [step |-> "parse", err |-> NoErr]]
              ELSE IF fail \/ CountErr(built.whereClause, built.params)
              THEN /\ resp' = [resp EXCEPT ![r] = DbError("Failed to count leads")]
                   /\ pc' = [pc EXCEPT ![r] = "done"]
                   /\ loc' = [loc EXCEPT ![r] = [step |-> "count", err |-> IoErr]]
              ELSE /\ resp' = [resp EXCEPT ![r] = NoResp]
                   /\ pc' = [pc EXCEPT ![r] = "l_rows"]
                   /\ loc' = [loc EXCEPT ![r] =
                                [ step |-> "count", err |-> NoErr,
                                  page |-> page, limit |-> limit,
                                  offset |-> offset, filters |-> filters,
                                  whereClause |-> built.whereClause,
                                  params |-> built.params,
                                  queryParams |-> built.params \o << Num(limit), Num(offset) >>,
                                  total |-> total,
                                  totalPages |-> CeilDiv(total, limit),
                                  \* history, read by no handler: the
                                  \* table the count query ran on
                                  counted |-> leads ]]
  /\ UNCHANGED << leads, nextId, now >>

\* The row query and its callback, which sends the envelope.
ListRows(r) ==
  /\ pc[r] = "l_rows"
  /\ \E fail \in BOOLEAN :
       LET l == loc[r]
           k == Placeholders(l.whereClause)
           sel == Matching(leads, l.whereClause, l.queryParams)
       IN  IF fail \/ RowsErr(l.whereClause, l.queryParams)
           THEN /\ resp' = [resp EXCEPT ![r] = DbError("Failed to fetch leads")]
                /\ loc' = [loc EXCEPT ![r] = [l EXCEPT !.step = "rows", !.err = IoErr]]
           ELSE \E o \in Orderings(leads, sel) :
                  LET rows == Page(o, ParamAt(l.queryParams, k + 1).n,
                                   ParamAt(l.queryParams, k + 2).n)
                  IN  /\ resp' = [resp EXCEPT ![r] =
                             Json(200, [ data |-> [i \in 1..Len(rows) |-> leads[rows[i]]],
                                         page |-> l.page, limit |-> l.limit,
                                         total |-> l.total, totalPages |-> l.totalPages ])]
                      /\ loc' = [loc EXCEPT ![r] = [l EXCEPT !.step = "rows"]]
  /\ pc' = [pc EXCEPT ![r] = "done"]
  /\ UNCHANGED << leads, nextId, now, req >>

(***************************************************************************)
(* validateLead, and the request bodies a client can send.                 *)
(***************************************************************************)
RECURSIVE TrimLeft(_)
TrimLeft(s) == IF Len(s) > 0 /\ s[1] = " " THEN TrimLeft(Tail(s)) ELSE s

RECURSIVE TrimRight(_)
TrimRight(s) ==
  IF Len(s) > 0 /\ s[Len(s)] = " " THEN TrimRight(SubSeq(s, 1, Len(s) - 1)) ELSE s

\* trim()
Trim(s) == TrimRight(TrimLeft(s))

\* isEmail(): one @ after a local part, a dot inside the domain
IsEmail(s) ==
  \E i \in 2..(Len(s) - 3) :
    /\ s[i] = "@"
    /\ \A j \in 1..Len(s) : (s[j] = "@") => (j = i)
    /\ \E j \in (i + 2)..(Len(s) - 1) : s[j] = "."
    /\ \A j \in 1..Len(s) : s[j] # " "

\* normalizeEmail(): lower case (the provider-specific rules do not touch
\* the addresses of the model)
NormalizeEmail(s) == ToLower(s)

\* the chain of validators and sanitizers of validateLead on a body:
\* whether it passes, and the body the handler then reads
validateLead(b) ==
  LET isText(v) == v.t = "string"
      first == IF isText(b.first_name) THEN Trim(b.first_name.s) ELSE << >>
      last == IF isText(b.last_name) THEN Trim(b.last_name.s) ELSE << >>
      trimmed(v) == IF isText(v) THEN Str(Trim(v.s)) ELSE v
      ok == /\ Len(first) > 0
            /\ Len(last) > 0
            /\ isText(b.email) /\ IsEmail(b.email.s)
            /\ isText(b.source) /\ b.source.s \in Sources
            /\ b.status # Undef => (isText(b.status) /\ b.status.s \in Statuses)
            /\ b.score # Undef =>
                 (b.score.t = "number" /\ b.score.n >= 0 /\ b.score.n <= 100)
            /\ b.lead_value # Undef => (b.lead_value.t = "number" /\ b.lead_value.n >= 0)
            /\ b.is_qualified # Undef => b.is_qualified.t = "boolean"
  IN  [ ok |-> ok,
        body |-> [b EXCEPT !.first_name = Str(first), !.last_name = Str(last),
                           !.email = IF isText(b.email)
                                     THEN Str(NormalizeEmail(b.email.s)) ELSE b.email,
                           !.phone = trimmed(b.phone), !.company = trimmed(b.company),
                           !.city = trimmed(b.city), !.state = trimmed(b.state)] ]

Body(first, email, company, status, score) ==
  [ first_name |-> Str(first), last_name |-> Str(<< "l" >>), email |-> Str(email),
    phone |-> Undef, company |-> company, city |-> Undef, state |-> Undef,
    source |-> Str(Website), status |-> status, score |-> score,
    lead_value |-> Undef, is_qualified |-> Undef ]

\* the bodies create and update requests carry
Bodies ==
  { Body(<< "f" >>, EmailA, Undef, Str(StatusWon), Num(5)),
    Body(<< "g" >>, EmailB, Str(<< " ", "a" >>), Str(StatusNew), Undef),
    Body(<< "f" >>, EmailUpperA, Undef, Undef, Num(100)),
    Body(<< " " >>, EmailB, Undef, Undef, Num(5)),
    Body(<< "f" >>, EmailB, Undef, Undef, Num(101)) }

\* the :id path parameters requests carry
IdParams == {Str(IntText(i)) : i \in 1..MaxId}

(***************************************************************************)
(* The statements the handlers run on the leads table.                     *)
(***************************************************************************)
\* SELECT ... WHERE user_id = ? AND email = ?
ByUserEmail(t, userId, email) ==
  Matching(t, << Frag("user_id", "=", 1), Frag("email", "=", 1) >>, << userId, email >>)

\* SELECT ... WHERE id = ? AND user_id = ?
ByIdUser(t, id, userId) ==
  Matching(t, << Frag("id", "=", 1), Frag("user_id", "=", 1) >>, << id, userId >>)

\* SELECT ... WHERE user_id = ? AND email = ? AND id != ?
ByUserEmailNotId(t, userId, email, id) ==
  Matching(t, << Frag("user_id", "=", 1), Frag("email", "=", 1), Frag("id", "!=", 1) >>,
           << userId, email, id >>)

\* SELECT * FROM leads WHERE id = ?
ById(t, id) == Matching(t, << Frag("id", "=", 1) >>, << id >>)

\* a row as db.get hands it to its callback
RowObj(row) == [t |-> "row", row |-> row]

\* the first row of a result, undefined when there is none
FirstRow(t, S) ==
  IF S = {} THEN Undef ELSE RowObj(t[CHOOSE i \in S : \A j \in S : i <= j])

\* the row INSERT INTO leads (...) VALUES (...) writes at tick n
InsertedRow(id, userId, b, n) ==
  [ id |-> SInt(id), user_id |-> Stored("user_id", userId),
    first_name |-> Stored("first_name", b.first_name),
    last_name |-> Stored("last_name", b.last_name),
    email |-> Stored("email", b.email), phone |-> Stored("phone", b.phone),
    company |-> Stored("company", b.company), city |-> Stored("city", b.city),
    state |-> Stored("state", b.state), source |-> Stored("source", b.source),
    status |-> Stored("status", b.status), score |-> Stored("score", b.score),
    lead_value |-> Stored("lead_value", b.lead_value),
    last_activity_at |-> Stored("last_activity_at", IsoNow(n)),
    is_qualified |-> Stored("is_qualified", b.is_qualified),
    created_at |-> SqlNow(n), updated_at |-> SqlNow(n) ]

\* the row UPDATE leads SET ... leaves at tick n
UpdatedRow(old, b, n) ==
  [ old EXCEPT
      !.first_name = Stored("first_name", b.first_name),
      !.last_name = Stored("last_name", b.last_name),
      !.email = Stored("email", b.email), !.phone = Stored("phone", b.phone),
      !.company = Stored("company", b.company), !.city = Stored("city", b.city),
      !.state = Stored("state", b.state), !.source = Stored("source", b.source),
      !.status = Stored("status", b.status), !.score = Stored("score", b.score),
      !.lead_value = Stored("lead_value", b.lead_value),
      !.is_qualified = Stored("is_qualified", b.is_qualified),
      !.updated_at = SqlNow(n) ]

\* the table with UNIQUE(user_id, email) left out of its definition
WriteErrNoUnique(t, i, row) ==
  IF ~RowChecksOk(row) THEN ConstraintErr("CHECK") ELSE NoErr

\* the error SQLite raises for putting row at id i of table t
WriteErr(t, i, row) ==
  IF ~RowChecksOk(row) THEN ConstraintErr("CHECK")
  ELSE IF ~UniqueOk(WithRow(t, i, row)) THEN ConstraintErr("UNIQUE")
  ELSE NoErr

(***************************************************************************)
(* POST /: create.                                                         *)
(***************************************************************************)
\* status = 'new', score = 0, lead_value = 0, is_qualified = false when the
\* body leaves them undefined
WithDefaults(b) ==
  [b EXCEPT !.status = IF b.status = Undef THEN Str(StatusNew) ELSE b.status,
            !.score = IF b.score = Undef THEN Num(0) ELSE b.score,
            !.lead_value = IF b.lead_value = Undef THEN Num(0) ELSE b.lead_value,
            !.is_qualified = IF b.is_qualified = Undef THEN Bool(FALSE) ELSE b.is_qualified]

Finish(r, response, l) ==
  /\ resp' = [resp EXCEPT ![r] = response]
  /\ pc' = [pc EXCEPT ![r] = "done"]
  /\ loc' = [loc EXCEPT ![r] = l]

\* a handler that answers before it hands over to its next callback
ContinueAnswered(r, label, l) ==
  /\ pc' = [pc EXCEPT ![r] = label]
  /\ loc' = [loc EXCEPT ![r] = l]
  /\ resp' = [resp EXCEPT ![r] = Json(200, [message |-> "accepted"])]

Continue(r, label, l) ==
  /\ pc' = [pc EXCEPT ![r] = label]
  /\ loc' = [loc EXCEPT ![r] = l]
  /\ UNCHANGED resp

\* the duplicate pre-check of create with the tenant left out of its WHERE
PostExistingAnyTenant(t, userId, email) ==
  Matching(t, << Frag("email", "=", 1) >>, << email >>)

\* the rows the duplicate pre-check of create finds
PostExisting(t, userId, email) == ByUserEmail(t, userId, email)

\* The handler up to its first store callback: validation, then the
\* duplicate-email pre-check and its callback, which issues the INSERT.
PostLead(r) ==
  /\ Arrives(r)
  /\ \E user \in Tenants, b \in Bodies, fail \in BOOLEAN :
       LET v == validateLead(b)
           body == WithDefaults(v.body)
           existingLead == FirstRow(leads, PostExisting(leads, Num(user), body.email))
       IN  /\ req' = [req EXCEPT ![r] = [kind |-> "create", user |-> user, body |-> b]]
           /\ IF ~v.ok
              THEN Finish(r, ValidationError, [step |-> "validate", err |-> NoErr])
              ELSE IF fail
              THEN Finish(r, DbError("Failed to check lead existence"),
                          [step |-> "check", err |-> IoErr])
              ELSE IF Truthy(existingLead)
              THEN Finish(r, Json(409, Err("Lead already exists",
                                           "A lead with this email already exists")),
                          [step |-> "check", err |-> NoErr, body |-> body])
              ELSE Continue(r, "c_insert", [step |-> "check", err |-> NoErr, body |-> body])
  /\ UNCHANGED << leads, nextId, now >>

\* The INSERT and its callback, which issues the fetch of the created lead.
PostInsert(r) ==
  /\ pc[r] = "c_insert"
  /\ \E fail \in BOOLEAN :
       LET row == InsertedRow(nextId, Num(req[r].user), loc[r].body, now)
           err == IF fail THEN IoErr ELSE WriteErr(leads, nextId, row)
       IN  IF err # NoErr
           THEN /\ Finish(r, DbError("Failed to create lead"),
                          [loc[r] EXCEPT !.step = "insert", !.err = err])
                /\ UNCHANGED << leads, nextId >>
           ELSE /\ leads' = WithRow(leads, nextId, row)
                /\ nextId' = nextId + 1
                /\ Continue(r, "c_fetch",
                            [step |-> "insert", err |-> NoErr, body |-> loc[r].body,
                             lastID |-> nextId])
  /\ UNCHANGED << now, req >>

\* The fetch of the created lead and its callback, which answers 201.
PostFetch(r) ==
  /\ pc[r] = "c_fetch"
  /\ \E fail \in BOOLEAN :
       IF fail
       THEN Finish(r, DbError("Failed to fetch created lead"),
                   [loc[r] EXCEPT !.step = "fetch", !.err = IoErr])
       ELSE Finish(r, Json(201, [message |-> "Lead created successfully",
                                 lead |-> FirstRow(leads, ById(leads, Num(loc[r].lastID)))]),
                   [loc[r] EXCEPT !.step = "fetch"])
  /\ UNCHANGED << leads, nextId, now, req >>

(***************************************************************************)
(* GET /:id, PUT /:id, DELETE /:id.                                        *)
(***************************************************************************)
\* the lookup of get-by-id with the tenant left out of its WHERE
OwnedAnyTenant(t, id, userId) == ById(t, id)

\* the rows with this id that this tenant owns
Owned(t, id, userId) == ByIdUser(t, id, userId)

\* The lookup and its callback.
GetLead(r) ==
  /\ Arrives(r)
  /\ \E user \in Tenants, id \in IdParams, fail \in BOOLEAN :
       LET lead == FirstRow(leads, Owned(leads, id, Num(user)))
       IN  /\ req' = [req EXCEPT ![r] = [kind |-> "get", user |-> user, id |-> id]]
           /\ IF fail
              THEN Finish(r, DbError("Failed to fetch lead"), [step |-> "get", err |-> IoErr])
              ELSE IF ~Truthy(lead)
              THEN Finish(r, NotFound, [step |-> "get", err |-> NoErr])
              ELSE Finish(r, Json(200, [lead |-> lead]), [step |-> "get", err |-> NoErr])
  /\ UNCHANGED << leads, nextId, now >>

\* The handler up to its first store callback: validation, then the
\* existence-and-ownership check and its callback, which issues the
\* duplicate-email check.
PutLead(r) ==
  /\ Arrives(r)
  /\ \E user \in Tenants, id \in IdParams, b \in Bodies, fail \in BOOLEAN :
       LET v == validateLead(b)
           existingLead == FirstRow(leads, Owned(leads, id, Num(user)))
       IN  /\ req' = [req EXCEPT ![r] =
                        [kind |-> "update", user |-> user, id |-> id, body |-> b]]
           /\ IF ~v.ok
              THEN Finish(r, ValidationError, [step |-> "validate", err |-> NoErr])
              ELSE IF fail
              THEN Finish(r, DbError("Failed to check lead existence"),
                          [step |-> "exists", err |-> IoErr])
              ELSE IF ~Truthy(existingLead)
              THEN Finish(r, NotFound, [step |-> "exists", err |-> NoErr])
              ELSE Continue(r, "u_dup", [step |-> "exists", err |-> NoErr, body |-> v.body])
  /\ UNCHANGED << leads, nextId, now >>

\* the duplicate check of update without its id != ? term
PutDuplicateWithSelf(t, userId, email, id) == ByUserEmail(t, userId, email)

\* the rows the duplicate check of update finds
PutDuplicate(t, userId, email, id) == ByUserEmailNotId(t, userId, email, id)

\* The duplicate-email check and its callback, which issues the UPDATE.
PutCheck(r) ==
  /\ pc[r] = "u_dup"
  /\ \E fail \in BOOLEAN :
       LET duplicateLead ==
             FirstRow(leads, PutDuplicate(leads, Num(req[r].user), loc[r].body.email,
                                          req[r].id))
       IN  IF fail
           THEN Finish(r, DbError("Failed to check email uniqueness"),
                       [loc[r] EXCEPT !.step = "dup", !.err = IoErr])
           ELSE IF Truthy(duplicateLead)
           THEN Finish(r, Json(409, Err("Email already exists",
                                        "Another lead with this email already exists")),
                       [loc[r] EXCEPT !.step = "dup"])
           ELSE Continue(r, "u_write", [loc[r] EXCEPT !.step = "dup"])
  /\ UNCHANGED << leads, nextId, now, req >>

\* the rows UPDATE ... WHERE id = ? AND user_id = ? touches
PutTargets(t, id, userId) == ByIdUser(t, id, userId)

\* The UPDATE and its callback, which issues the fetch of the updated lead.
PutWrite(r) ==
  /\ pc[r] = "u_write"
  /\ \E fail \in BOOLEAN :
       LET hit == PutTargets(leads, req[r].id, Num(req[r].user))
           i == CHOOSE k \in hit : TRUE
           row == UpdatedRow(leads[i], loc[r].body, now)
           err == IF fail THEN IoErr
                  ELSE IF hit = {} THEN NoErr
                  ELSE WriteErr(leads, i, row)
       IN  IF err # NoErr
           THEN /\ Finish(r, DbError("Failed to update lead"),
                          [loc[r] EXCEPT !.step = "write", !.err = err])
                /\ UNCHANGED leads
           ELSE IF hit = {}
           THEN /\ Finish(r, NotFound, [loc[r] EXCEPT !.step = "write"])
                /\ UNCHANGED leads
           ELSE /\ leads' = WithRow(leads, i, row)
                /\ Continue(r, "u_fetch", [loc[r] EXCEPT !.step = "write"])
  /\ UNCHANGED << nextId, now, req >>

\* The fetch of the updated lead and its callback, which answers 200.
PutFetch(r) ==
  /\ pc[r] = "u_fetch"
  /\ \E fail \in BOOLEAN :
       IF fail
       THEN Finish(r, DbError("Failed to fetch updated lead"),
                   [loc[r] EXCEPT !.step = "fetch", !.err = IoErr])
       ELSE Finish(r, Json(200, [message |-> "Lead updated successfully",
                                 lead |-> FirstRow(leads, ById(leads, req[r].id))]),
                   [loc[r] EXCEPT !.step = "fetch"])
  /\ UNCHANGED << leads, nextId, now, req >>

\* the rows DELETE ... WHERE id = ? would remove with user_id left out
DeleteTargetsAnyTenant(t, id, userId) == ById(t, id)

\* the rows DELETE ... WHERE id = ? AND user_id = ? removes
DeleteTargets(t, id, userId) == ByIdUser(t, id, userId)

\* The DELETE and its callback.
DeleteLead(r) ==
  /\ Arrives(r)
  /\ \E user \in Tenants, id \in IdParams, fail \in BOOLEAN :
       LET hit == DeleteTargets(leads, id, Num(user))
       IN  /\ req' = [req EXCEPT ![r] = [kind |-> "delete", user |-> user, id |-> id]]
           /\ IF fail
              THEN /\ Finish(r, DbError("Failed to delete lead"),
                             [step |-> "delete", err |-> IoErr])
                   /\ UNCHANGED leads
              ELSE IF hit = {}
              THEN /\ Finish(r, NotFound, [step |-> "delete", err |-> NoErr])
                   /\ UNCHANGED leads
              ELSE /\ Finish(r, Json(200, [message |-> "Lead deleted successfully"]),
                             [step |-> "delete", err |-> NoErr])
                   /\ leads' = [k \in (DOMAIN leads) \ hit |-> leads[k]]
  /\ UNCHANGED << nextId, now >>

\* A second passes.
Tick ==
  /\ now < TicksPerDay + MaxClock
  /\ now' = now + 1
  /\ UNCHANGED << leads, nextId, pc, req, loc, resp >>

(***************************************************************************)
(* Filter documents a client can send.                                     *)
(***************************************************************************)
TextFields == {"email", "company", "city"}
EnumFields == {"status", "source"}
NumberFields == {"score", "lead_value"}
DateFields == {"created_at", "last_activity_at"}
FieldNames == TextFields \cup EnumFields \cup NumberFields \cup DateFields \cup {"is_qualified"}

\* a field name buildWhereClause does not know
UnknownField == "priority"

\* the operators buildWhereClause reads for a field
Permitted(name) ==
  IF name \in TextFields THEN {"equals", "contains"}
  ELSE IF name \in EnumFields THEN {"equals", "in"}
  ELSE IF name \in NumberFields THEN {"equals", "gt", "lt", "between"}
  ELSE IF name \in DateFields THEN {"on", "before", "after", "between"}
  ELSE {}

Day0 == Str(<< "0", "-" >>)
Ts00 == Str(<< "0", "-", " ", "0" >>)
Ts01 == Str(<< "0", "-", " ", "1" >>)
Ts10 == Str(<< "1", "-", " ", "0" >>)
Iso00 == Str(<< "0", "-", "T", "0" >>)
Iso10 == Str(<< "1", "-", "T", "0" >>)

\* what a filter document may hold under a field name
EntriesOf(name) ==
  IF name \in TextFields THEN
    { Entry(Op("equals"), Str(IF name = "email" THEN EmailA ELSE << "a", "b" >>)),
      Entry(Op("contains"), Str(<< "b" >>)),
      Entry(Op("gt"), Str(<< "a" >>)),
      Entry(Op("like"), Str(<< "%" >>)),
      Str(<< "a" >>) }
  ELSE IF name \in EnumFields THEN
    { Entry(Op("equals"), Str(IF name = "status" THEN StatusNew ELSE Website)),
      Entry(Op("in"), Arr(<< Str(StatusWon), Str(Referral) >>)),
      Entry(Op("in"), Arr(<< >>)),
      Entry(Op("in"), Str(StatusNew)),
      Entry(Op("between"), Arr(<< Str(StatusNew), Str(StatusWon) >>)),
      Entry(Undef, Str(StatusNew)) }
  ELSE IF name \in NumberFields THEN
    { Entry(Op("equals"), Num(2)),
      Entry(Op("gt"), Num(1)),
      Entry(Op("lt"), Num(3)),
      Entry(Op("between"), Arr(<< Num(1), Num(2) >>)),
      Entry(Op("between"), Arr(<< Num(2), Num(3) >>)),
      Entry(Op("between"), Arr(<< Num(3), Num(1) >>)),
      Entry(Op("between"), Arr(<< >>)),
      Entry(Op("between"), Arr(<< Num(1) >>)),
      Entry(Op("between"), Arr(<< Num(1), Num(2), Num(3) >>)),
      Entry(Op("between"), Num(2)),
      Entry(Op("contains"), Num(2)),
      Num(2) }
  ELSE IF name = "created_at" THEN
    { Entry(Op("on"), Day0),
      Entry(Op("before"), Ts01),
      Entry(Op("after"), Ts01),
      Entry(Op("between"), Arr(<< Ts00, Ts01 >>)),
      Entry(Op("between"), Arr(<< Ts01, Ts10 >>)),
      Entry(Op("between"), Arr(<< >>)),
      Entry(Op("between"), Arr(<< Ts01 >>)),
      Entry(Op("between"), Arr(<< Ts00, Ts01, Ts10 >>)),
      Entry(Op("between"), Ts01),
      Entry(Op("equals"), Ts01) }
  ELSE IF name = "last_activity_at" THEN
    { Entry(Op("on"), Day0),
      Entry(Op("before"), Iso10),
      Entry(Op("after"), Iso00),
      Entry(Op("between"), Arr(<< Iso00, Iso10 >>)),
      Entry(Op("between"), Arr(<< >>)),
      Entry(Op("between"), Arr(<< Iso10 >>)),
      Entry(Op("between"), Arr(<< Iso00, Iso10, Iso10 >>)),
      Entry(Op("between"), Iso10),
      Entry(Op("gt"), Iso00) }
  ELSE IF name = "is_qualified" THEN
    { Bool(TRUE), Bool(FALSE), Null, Num(0), Entry(Op("equals"), Bool(FALSE)) }
  ELSE
    { Entry(Op("equals"), Num(1)), Str(<< "a" >>) }

RECURSIVE DocsOver(_)
\* the objects whose own properties are exactly the names in S
DocsOver(S) ==
  IF S = {} THEN { << >> }
  ELSE LET n == CHOOSE x \in S : TRUE
       IN  {g @@ (n :> e) : g \in DocsOver(S \ {n}), e \in EntriesOf(n)}

\* what JSON.parse can return for the filters parameter
FilterValues ==
  { Null, Num(5), Num(0), Arr(<< Num(1) >>) }
  \cup { Doc(f) : f \in UNION { DocsOver(S) :
           S \in {T \in SUBSET (FieldNames \cup {UnknownField}) :
                    Cardinality(T) <= MaxEntries} } }

JsonText(v) == [t |-> "json", json |-> v]
BadJson == [t |-> "badjson"]

\* list requests with page and limit left out
FilterQueries ==
  { [page |-> Undef, limit |-> Undef, filters |-> JsonText(v)] : v \in FilterValues }

(***************************************************************************)
(* The filter compiler and the list handler on every filter document.      *)
(***************************************************************************)
\* the server starts on the seeded table, at the first second of day 1
Init ==
  /\ leads = SeedLeads
  /\ nextId = Cardinality(DOMAIN SeedLeads) + 1
  /\ now = TicksPerDay
  /\ pc = [r \in Reqs |-> "idle"]
  /\ req = [r \in Reqs |-> [kind |-> "none"]]
  /\ loc = [r \in Reqs |-> [step |-> "none", err |-> NoErr]]
  /\ resp = [r \in Reqs |-> NoResp]

\* one list request, its filter document any of FilterValues
FilterNext ==
  \/ ListLeads(1, FilterQueries)
  \/ ListRows(1)

FilterSpec == Init /\ [][FilterNext]_vars

(***************************************************************************)
(* The server: requests of every kind, their callbacks interleaved.        *)
(***************************************************************************)
\* the list requests of the server run
ListQueries ==
  { [page |-> Undef, limit |-> Undef, filters |-> Undef],
    [page |-> Str(<< "2" >>), limit |-> Str(<< "1" >>), filters |-> Undef],
    [page |-> Str(<< "0" >>), limit |-> Undef, filters |-> Undef],
    [page |-> Undef, limit |-> Undef, filters |-> BadJson],
    [page |-> Undef, limit |-> Str(<< "2" >>),
     filters |-> JsonText(Doc("score" :> Entry(Op("gt"), Num(1))))],
    [page |-> Str(<< "1" >>), limit |-> Str(<< "1" >>), filters |-> Undef],
    [page |-> Undef, limit |-> Undef,
     filters |-> JsonText(Doc("score" :> Entry(Op("gt"), Num(4))))],
    [page |-> Undef, limit |-> Str(<< "1", "0", "1" >>), filters |-> Undef],
    [page |-> Str(<< "x" >>), limit |-> Undef, filters |-> Undef] }

Next ==
  \/ \E r \in Reqs :
       \/ PostLead(r)
       \/ PostInsert(r)
       \/ PostFetch(r)
       \/ ListLeads(r, ListQueries)
       \/ ListRows(r)
       \/ GetLead(r)
       \/ PutLead(r)
       \/ PutCheck(r)
       \/ PutWrite(r)
       \/ PutFetch(r)
       \/ DeleteLead(r)
  \/ Tick

Spec == Init /\ [][Next]_vars

\* a store callback of the request in slot r
Callback(r) ==
  \/ PostInsert(r) \/ PostFetch(r)
  \/ ListRows(r)
  \/ PutCheck(r) \/ PutWrite(r) \/ PutFetch(r)

\* one request of any kind, and after it has arrived a delete that falls
\* between its callbacks
LiveNext ==
  \/ PostLead(1) \/ PostInsert(1) \/ PostFetch(1)
  \/ ListLeads(1, ListQueries) \/ ListRows(1)
  \/ GetLead(1)
  \/ PutLead(1) \/ PutCheck(1) \/ PutWrite(1) \/ PutFetch(1)
  \/ DeleteLead(1)
  \/ DeleteLead(NReq)

\* the same, with every store call that was issued calling back in the end
LiveSpec == Init /\ [][LiveNext]_vars /\ \A r \in Reqs : WF_vars(Callback(r))

(***************************************************************************)
(* Pages: list requests of every page over a table in which two leads of   *)
(* tenant 1 were created in the same second, with deletes in between.      *)
(***************************************************************************)
\* the seeded table with leads 2 and 4 created in one second, the newer id
\* under the smaller email
TiedLeads ==
  [SeedLeads EXCEPT ![2].email = SeedLeads[4].email,
                    ![4].email = SeedLeads[2].email,
                    ![4].created_at = SeedLeads[2].created_at]

PageParams == {Undef, Str(<< "2" >>), Str(<< "3" >>)}
LimitParams == {Undef, Str(<< "1" >>), Str(<< "2" >>)}

\* list requests of pages 1 to 3 with limits 1, 2 and 20
PageQueries ==
  { [page |-> p, limit |-> l, filters |-> f] :
      p \in PageParams, l \in LimitParams,
      f \in {Undef, JsonText(Doc("score" :> Entry(Op("gt"), Num(1))))} }

PageInit ==
  /\ leads = TiedLeads
  /\ nextId = Cardinality(DOMAIN TiedLeads) + 1
  /\ now = TicksPerDay
  /\ pc = [r \in Reqs |-> "idle"]
  /\ req = [r \in Reqs |-> [kind |-> "none"]]
  /\ loc = [r \in Reqs |-> [step |-> "none", err |-> NoErr]]
  /\ resp = [r \in Reqs |-> NoResp]

PageNext ==
  \E r \in Reqs :
    \/ ListLeads(r, PageQueries)
    \/ ListRows(r)
    \/ DeleteLead(r)

PageSpec == PageInit /\ [][PageNext]_vars

(***************************************************************************)
(* Properties of the filter compiler and the list response.                *)
(***************************************************************************)
\* the list request of slot r has compiled its predicate
Compiled(r) == req[r].kind = "list" /\ "whereClause" \in DOMAIN loc[r]

\* the list request of slot r was answered with the envelope
Listed(r) == req[r].kind = "list" /\ resp[r].status = 200

Data(r) == resp[r].body.data

DataIds(r) == {Data(r)[i].id.n : i \in 1..Len(Data(r))}

\* the document without the entry under name
Remove(D, name) == Doc([n \in (DOMAIN D.f) \ {name} |-> D.f[n]])

EntryNames(D) == IF D.t = "doc" THEN DOMAIN D.f ELSE {}

\* C1: every row in the data of a list response to tenant A has
\* user_id = A, whatever the filter document holds, and the compiled
\* predicate starts with the tenant-scope clause bound to the caller's id.
C1_TenantReadIsolation ==
  \A r \in Reqs :
    /\ Compiled(r) =>
         /\ Len(loc[r].whereClause) >= 1
         /\ loc[r].whereClause[1] = Frag("user_id", "=", 1)
         /\ Len(loc[r].params) >= 1
         /\ loc[r].params[1] = Num(req[r].user)
    /\ Listed(r) =>
         \A i \in 1..Len(Data(r)) : Data(r)[i].user_id = SInt(req[r].user)

\* a list was answered with rows while another tenant's row satisfies every
\* clause the filter document added
C1_Witness ==
  \E r \in Reqs :
    /\ Listed(r)
    /\ Len(Data(r)) > 0
    /\ Len(loc[r].whereClause) > 1
    /\ \E i \in DOMAIN leads :
         /\ leads[i].user_id # SInt(req[r].user)
         /\ Matches(Tail(loc[r].whereClause), Tail(loc[r].params), leads[i])

BetweenFields == NumberFields \cup DateFields

\* a between entry whose value is not a list of exactly two elements
MalformedBetween(x) ==
  /\ x.t = "object"
  /\ x.operator = Op("between")
  /\ ~(x.value.t = "array" /\ Len(x.value.a) = 2)

\* C8: a between entry whose value is not a list of exactly two elements
\* contributes no clause and no bound value: the predicate is the one
\* compiled from the document without that entry.
C8_MalformedBetweenNoClause ==
  \A r \in Reqs :
    Compiled(r) =>
      \A name \in EntryNames(loc[r].filters) \cap BetweenFields :
        MalformedBetween(loc[r].filters.f[name]) =>
          /\ \A i \in 1..Len(loc[r].whereClause) : loc[r].whereClause[i].col # name
          /\ buildWhereClause(Remove(loc[r].filters, name), Num(req[r].user))
               = [whereClause |-> loc[r].whereClause, params |-> loc[r].params]

\* a between entry with a two-element list of the field's own kind of value
WellFormedBetween(x, name) ==
  /\ x.t = "object"
  /\ x.operator = Op("between")
  /\ x.value.t = "array"
  /\ Len(x.value.a) = 2
  /\ \A k \in 1..2 :
       x.value.a[k].t = (IF name \in NumberFields THEN "number" ELSE "string")

\* lo <= f <= hi on a stored value f, NULL being in no range
InRange(f, name, lo, hi) ==
  IF name \in NumberFields
  THEN f.k = "int" /\ lo.n <= f.n /\ f.n <= hi.n
  ELSE f.k = "text" /\ TextCmp(f.s, lo.s) >= 0 /\ TextCmp(f.s, hi.s) <= 0

\* C9: with a between entry [lo, hi] on score, lead_value, created_at or
\* last_activity_at, the list returns exactly the caller's rows that satisfy
\* the other clauses and have lo <= f <= hi, both endpoints included.
C9_BetweenInclusive ==
  \A r \in Reqs :
    Listed(r) =>
      \A name \in EntryNames(loc[r].filters) \cap BetweenFields :
        LET x == loc[r].filters.f[name]
            rest == buildWhereClause(Remove(loc[r].filters, name), Num(req[r].user))
            expected == {i \in Matching(leads, rest.whereClause, rest.params) :
                           InRange(leads[i][name], name, x.value.a[1], x.value.a[2])}
        IN  WellFormedBetween(x, name) =>
              /\ DataIds(r) = expected
              /\ Len(Data(r)) = Cardinality(expected)

\* a score range returned the rows at both of its endpoints and left out a
\* row of the caller that lies outside it
C9_Witness ==
  \E r \in Reqs :
    /\ Listed(r)
    /\ "score" \in EntryNames(loc[r].filters)
    /\ WellFormedBetween(loc[r].filters.f["score"], "score")
    /\ LET v == loc[r].filters.f["score"].value.a
       IN  /\ \E i \in DataIds(r) : leads[i].score = SInt(v[1].n)
           /\ \E i \in DataIds(r) : leads[i].score = SInt(v[2].n)
           /\ v[1].n < v[2].n
           /\ \E i \in DOMAIN leads :
                /\ leads[i].user_id = SInt(req[r].user)
                /\ leads[i].score.k = "int"
                /\ leads[i].score.n > v[2].n
                /\ i \notin DataIds(r)

\* an entry buildWhereClause has no use for: its name is no recognized
\* field, or its operator is none of those its field class permits
Ignorable(name, x) ==
  \/ name \notin FieldNames
  \/ /\ name # "is_qualified"
     /\ Operator(x) \notin {Op(o) : o \in Permitted(name)}

\* C10: an entry with an unrecognized field name, or with an operator its
\* field class does not permit, leaves clause text and bound values as
\* compiled from the document without that entry.
C10_UnknownFieldTolerance ==
  \A r \in Reqs :
    Compiled(r) =>
      \A name \in EntryNames(loc[r].filters) :
        Ignorable(name, loc[r].filters.f[name]) =>
          buildWhereClause(Remove(loc[r].filters, name), Num(req[r].user))
            = [whereClause |-> loc[r].whereClause, params |-> loc[r].params]

\* a list was answered for a document that holds an ignorable entry beside
\* an entry that added a clause
C10_Witness ==
  \E r \in Reqs :
    /\ Listed(r)
    /\ Len(loc[r].whereClause) > 1
    /\ \E name \in EntryNames(loc[r].filters) :
         /\ name \in FieldNames
         /\ Ignorable(name, loc[r].filters.f[name])
         /\ Truthy(loc[r].filters.f[name])

(***************************************************************************)
(* Properties of create, get, update and delete.                           *)
(***************************************************************************)
\* slot r takes the step
Steps(r) == pc'[r] # pc[r]

\* slot r takes the first step of a request of this kind
Starts(r, kind) == pc[r] = "idle" /\ pc'[r] # "idle" /\ req'[r].kind = kind

IdOf(r) == IF LooksInt(req[r].id.s) THEN ParseNat(req[r].id.s) ELSE 0

\* the ids of the leads of table t that tenant u does not own
NotOwnedBy(t, u) == {i \in DOMAIN t : t[i].user_id # SInt(u)}

\* C2: no step of a request of tenant A adds, removes or changes a lead of
\* another tenant, and no step at all changes the id or user_id of a lead.
C2_TenantWriteIsolation ==
  [][ /\ \A r \in Reqs :
           Steps(r) =>
             /\ NotOwnedBy(leads', req'[r].user) = NotOwnedBy(leads, req'[r].user)
             /\ \A i \in NotOwnedBy(leads, req'[r].user) : leads'[i] = leads[i]
      /\ \A i \in (DOMAIN leads) \cap (DOMAIN leads') :
           /\ leads'[i].id = leads[i].id
           /\ leads'[i].user_id = leads[i].user_id
      /\ \A i \in DOMAIN leads' : leads'[i].id = SInt(i)
    ]_vars

\* a delete and an update named a lead of another tenant, were answered
\* not-found, and the lead is in the store as it was
C2_Witness ==
  \E r, q \in Reqs :
    /\ req[r].kind = "delete" /\ req[q].kind = "update"
    /\ resp[r] = NotFound /\ resp[q] = NotFound
    /\ IdOf(r) = IdOf(q)
    /\ IdOf(r) \in (DOMAIN leads) \cap (DOMAIN SeedLeads)
    /\ leads[IdOf(r)].user_id # SInt(req[r].user)
    /\ leads[IdOf(r)].user_id # SInt(req[q].user)
    /\ leads[IdOf(r)] = SeedLeads[IdOf(r)]

\* C3: no two stored leads ever share (user_id, email), and a write the
\* UNIQUE constraint rejects leaves the table as it was.
C3_UniquenessInvariant ==
  /\ [](UniqueOk(leads))
  /\ [][ \A r \in Reqs :
           (Steps(r) /\ loc'[r].err = ConstraintErr("UNIQUE")) => leads' = leads
       ]_vars

\* two requests passed their duplicate checks for the same (user_id, email),
\* one wrote, and the write of the other was rejected by the constraint
C3_Witness ==
  \E r, q \in Reqs :
    /\ r # q
    /\ loc[r].err = ConstraintErr("UNIQUE")
    /\ loc[q].step \in {"insert", "write", "fetch"}
    /\ loc[q].err = NoErr
    /\ req[r].user = req[q].user
    /\ loc[r].body.email = loc[q].body.email

\* tenant u holds a lead with this email in table t
Holds(t, u, email) ==
  \E i \in DOMAIN t : t[i].user_id = SInt(u) /\ t[i].email = SText(email)

\* the email a valid body is stored under
EmailOf(b) == validateLead(b).body.email.s

\* C4: a create by tenant U for an email U already holds is answered 409
\* and leaves the store unchanged; a create for an email U does not hold
\* (another tenant may) passes the pre-check, its insert adds exactly one
\* lead, owned by U under that email, and it is answered 201.
C4_CreateUniqueness ==
  [][ \A r \in Reqs :
        /\ ( /\ Starts(r, "create")
             /\ validateLead(req'[r].body).ok
             /\ loc'[r].err # IoErr )
           => IF Holds(leads, req'[r].user, EmailOf(req'[r].body))
              THEN resp'[r].status = 409 /\ pc'[r] = "done" /\ leads' = leads
              ELSE pc'[r] = "c_insert" /\ leads' = leads
        /\ ( /\ pc[r] = "c_insert" /\ Steps(r)
             /\ loc'[r].err # IoErr
             /\ ~Holds(leads, req[r].user, EmailOf(req[r].body)) )
           => /\ pc'[r] = "c_fetch"
              /\ DOMAIN leads' = (DOMAIN leads) \cup {nextId}
              /\ nextId \notin DOMAIN leads
              /\ \A i \in DOMAIN leads : leads'[i] = leads[i]
              /\ leads'[nextId].user_id = SInt(req[r].user)
              /\ leads'[nextId].email = SText(EmailOf(req[r].body))
        /\ ( /\ pc[r] = "c_fetch" /\ Steps(r)
             /\ loc'[r].err # IoErr )
           => resp'[r].status = 201 /\ leads' = leads
    ]_vars

\* one tenant's create for an email it holds was answered 409, another
\* tenant's create for the same email was answered 201 and its lead is stored
C4_Witness ==
  \E r, q \in Reqs :
    /\ req[r].kind = "create" /\ req[q].kind = "create"
    /\ req[r].user # req[q].user
    /\ resp[r].status = 409
    /\ resp[q].status = 201
    /\ loc[r].body.email = loc[q].body.email
    /\ loc[q].lastID \in DOMAIN leads
    /\ leads[loc[q].lastID].user_id = SInt(req[q].user)
    /\ Holds(leads, req[r].user, loc[r].body.email.s)

\* C5: a create or update that the (user_id, email) uniqueness rejects is
\* answered 409, never the store-error 500.
C5_ConflictNever500 ==
  \A r \in Reqs :
    loc[r].err = ConstraintErr("UNIQUE") => resp[r].status = 409

\* another lead of tenant u, not lead id, holds this email in table t
HeldByOther(t, u, email, id) ==
  \E i \in DOMAIN t :
    t[i].user_id = SInt(u) /\ t[i].email = SText(email) /\ i # id

\* C6: the duplicate check of an update answers 409 and changes no lead
\* when another lead of the tenant holds the new email, and lets the update
\* go on to its write otherwise, also when the lead itself holds the email.
C6_UpdateEmailConflict ==
  [][ \A r \in Reqs :
        ( /\ pc[r] = "u_dup" /\ Steps(r)
          /\ loc'[r].err # IoErr )
        => IF HeldByOther(leads, req[r].user, loc[r].body.email.s, IdOf(r))
           THEN /\ resp'[r].status = 409
                /\ pc'[r] = "done"
                /\ leads' = leads
           ELSE pc'[r] = "u_write" /\ leads' = leads
    ]_vars

\* an update to the email of another lead of the tenant was answered 409
\* with the lead as seeded, and an update that kept the lead's own email
\* was answered 200
C6_Witness ==
  \E r, q \in Reqs :
    /\ req[r].kind = "update" /\ req[q].kind = "update"
    /\ resp[r].status = 409
    /\ IdOf(r) \in (DOMAIN leads) \cap (DOMAIN SeedLeads)
    /\ leads[IdOf(r)] = SeedLeads[IdOf(r)]
    /\ resp[q].status = 200
    /\ HeldByOther(leads, req[r].user, loc[r].body.email.s, IdOf(r))
    /\ IdOf(q) \in DOMAIN SeedLeads
    /\ SeedLeads[IdOf(q)].email = SText(loc[q].body.email.s)
    /\ IdOf(q) # IdOf(r)

\* tenant u owns no lead with this id in table t: there is none, or it is
\* another tenant's
Unowned(t, id, u) == id \notin DOMAIN t \/ t[id].user_id # SInt(u)

\* C7: get-by-id, update and delete answer a lead id that does not exist
\* and a lead id another tenant owns with the same response, NotFound, and
\* change nothing.
C7_NoExistenceLeak ==
  [][ \A r \in Reqs :
        /\ ( /\ Starts(r, "get") \/ Starts(r, "delete") \/ Starts(r, "update")
             /\ req'[r].kind = "update" => validateLead(req'[r].body).ok
             /\ loc'[r].err # IoErr
             /\ Unowned(leads, ParseNat(req'[r].id.s), req'[r].user) )
           => resp'[r] = NotFound /\ pc'[r] = "done" /\ leads' = leads
        /\ ( /\ pc[r] = "u_write" /\ Steps(r)
             /\ loc'[r].err # IoErr
             /\ Unowned(leads, IdOf(r), req[r].user) )
           => resp'[r] = NotFound /\ pc'[r] = "done" /\ leads' = leads
    ]_vars

\* the same tenant asked for an id that does not exist and for an id of
\* another tenant's lead, with the same kind of request, and got NotFound twice
C7_Witness ==
  \E r, q \in Reqs :
    /\ req[r].kind \in {"get", "update", "delete"}
    /\ req[q].kind = req[r].kind
    /\ req[q].user = req[r].user
    /\ resp[r] = NotFound /\ resp[q] = NotFound
    /\ IdOf(r) \notin DOMAIN leads
    /\ IdOf(q) \in DOMAIN leads
    /\ leads[IdOf(q)].user_id # SInt(req[q].user)

(***************************************************************************)
(* Properties of the paginated list: the count read, the row read and the  *)
(* envelope.                                                               *)
(***************************************************************************)
\* slot r takes the row-query step of its list request and answers 200
SendsEnvelope(r) == pc[r] = "l_rows" /\ Steps(r) /\ resp'[r].status = 200

\* the leads of tenant u in table t, by id
LeadsOf(t, u) == [i \in {k \in DOMAIN t : t[k].user_id = SInt(u)} |-> t[i]]

\* no write has touched the caller's leads since the count query of slot r
Undisturbed(r) == LeadsOf(leads, req[r].user) = LeadsOf(loc[r].counted, req[r].user)

\* C11 as amended: an envelope with total = 0 has totalPages = 0 in every
\* interleaving, and has data = [] when no write touched the caller's leads
\* between the count read and the row read.
C11_EmptyTotalEmptyPage ==
  [][ \A r \in Reqs :
        (SendsEnvelope(r) /\ resp'[r].body.total = 0)
        => /\ resp'[r].body.totalPages = 0
           /\ Undisturbed(r) => resp'[r].body.data = << >>
    ]_vars

\* C11 as stated: every envelope with total = 0 has totalPages = 0 and
\* data = [], in every interleaving of the two reads with other requests.
C11_EmptyTotalAlways ==
  \A r \in Reqs :
    (Listed(r) /\ resp[r].body.total = 0)
    => resp[r].body.totalPages = 0 /\ Data(r) = << >>

\* a list request counted 0 rows while another request of the tenant was
\* in flight, that request's writes left the caller's matching rows alone,
\* and the envelope is empty
C11_Witness ==
  \E r, q \in Reqs :
    /\ r # q
    /\ Listed(r) /\ resp[r].body.total = 0
    /\ resp[r].body.totalPages = 0 /\ Data(r) = << >>
    /\ req[q].kind = "update" /\ req[q].user = req[r].user
    /\ pc[q] = "u_write"

\* the number a page or limit parameter stands for, dflt when it is absent
Requested(v, dflt) == IF v = Undef THEN dflt ELSE ParseNat(v.s)

\* the leads of tenant u in table t that the predicate of document
\* filters selects
Selected(t, u, filters) ==
  LET built == buildWhereClause(filters, Num(u))
  IN  {i \in DOMAIN t : t[i].user_id = SInt(u)
                        /\ Matches(built.whereClause, built.params, t[i])}

\* n = ceil(total / limit), without dividing
IsCeil(n, total, limit) ==
  /\ n = 0 <=> total = 0
  /\ total > 0 => ((n - 1) * limit < total /\ total <= n * limit)

\* C12: a list request that passes validation counts with page and limit as
\* requested (1 and 20 when absent), limit in 1..100, total the number of
\* the caller's rows its predicate selects at the count read and
\* totalPages = ceil(total / limit); the envelope carries these four.
C12_PaginationArithmetic ==
  [][ \A r \in Reqs :
        /\ (Starts(r, "list") /\ pc'[r] = "l_rows")
           => LET l == loc'[r]
                  q == req'[r].query
              IN  /\ l.page = Requested(q.page, 1) /\ l.page >= 1
                  /\ l.limit = Requested(q.limit, 20)
                  /\ l.limit \in 1..100
                  /\ l.total = Cardinality(Selected(leads, req'[r].user, l.filters))
                  /\ IsCeil(l.totalPages, l.total, l.limit)
        /\ SendsEnvelope(r)
           => LET e == resp'[r].body
              IN  /\ e.page = loc[r].page /\ e.limit = loc[r].limit
                  /\ e.total = loc[r].total /\ e.totalPages = loc[r].totalPages
                  /\ IsCeil(e.totalPages, e.total, e.limit)
    ]_vars

\* one envelope with page and limit defaulted, and one with three pages of
\* one row
C12_Witness ==
  /\ \E r \in Reqs :
       /\ Listed(r) /\ req[r].query.page = Undef /\ req[r].query.limit = Undef
       /\ resp[r].body.page = 1 /\ resp[r].body.limit = 20
       /\ resp[r].body.total > 0 /\ resp[r].body.totalPages = 1
  /\ \E r \in Reqs :
       /\ Listed(r) /\ resp[r].body.limit = 1
       /\ resp[r].body.total = 3 /\ resp[r].body.totalPages = 3

\* row i of table t comes before row j under ORDER BY created_at DESC
Precedes(t, i, j) ==
  \/ SqlCmp(t[i].created_at, t[j].created_at) > 0
  \/ /\ SqlCmp(t[i].created_at, t[j].created_at) = 0
     /\ ScansBefore(t, i, j)

\* the number of rows of S that come before row i
Rank(t, S, i) == Cardinality({j \in S : Precedes(t, j, i)})

Min(a, b) == IF a < b THEN a ELSE b
Max(a, b) == IF a > b THEN a ELSE b

\* two envelopes for one tenant, predicate and limit, read from the table
\* as it started
SamePaging(r, q) ==
  /\ Listed(r) /\ Listed(q)
  /\ leads = TiedLeads
  /\ req[r].user = req[q].user
  /\ req[r].query.filters = req[q].query.filters
  /\ resp[r].body.limit = resp[q].body.limit

\* with no write, two different pages of one listing share no row, and
\* pages 1 and 2 of a listing of two pages hold every matching row
PagesPartition ==
  \A r, q \in Reqs :
    SamePaging(r, q) =>
      /\ resp[r].body.page # resp[q].body.page => DataIds(r) \cap DataIds(q) = {}
      /\ ( /\ resp[r].body.page = 1 /\ resp[q].body.page = 2
           /\ resp[r].body.totalPages = 2 )
         => DataIds(r) \cup DataIds(q)
              = Selected(leads, req[r].user, loc[r].filters)

\* C13: when no write touched the caller's leads between the two reads,
\* data holds min(limit, max(0, total - offset)) rows, and its k-th row is
\* the caller's matching row that offset + k - 1 matching rows precede in
\* created_at descending order; so different pages of one listing are
\* disjoint and together hold every matching row once.
C13_PageContent ==
  /\ []PagesPartition
  /\ [][ \A r \in Reqs :
          (SendsEnvelope(r) /\ Undisturbed(r))
          => LET S == Selected(leads, req[r].user, loc[r].filters)
                 offset == (loc[r].page - 1) * loc[r].limit
                 data == resp'[r].body.data
             IN  /\ loc[r].total = Cardinality(S)
                 /\ Len(data) = Min(loc[r].limit, Max(0, loc[r].total - offset))
                 /\ \A k \in 1..Len(data) :
                      /\ data[k].id.n \in S
                      /\ data[k] = leads[data[k].id.n]
                      /\ Rank(leads, S, data[k].id.n) = offset + k - 1
      ]_vars

\* pages 1 and 2 of limit 2 were listed for tenant 1, whose three leads
\* include the two created in one second: page 1 holds two rows and page 2
\* the third
C13_Witness ==
  \E r, q \in Reqs :
    /\ SamePaging(r, q)
    /\ resp[r].body.page = 1 /\ resp[q].body.page = 2
    /\ resp[r].body.total = 3 /\ resp[r].body.totalPages = 2
    /\ Len(Data(r)) = 2 /\ Len(Data(q)) = 1
    /\ \E k \in 1..2 : Data(r)[k].created_at = TiedLeads[2].created_at

(***************************************************************************)
(* Properties of validation and of the error responses.                    *)
(***************************************************************************)
\* a page parameter that is given and is no integer from 1 up
BadPage(v) == v # Undef /\ ~(LooksInt(v.s) /\ ParseNat(v.s) >= 1)

\* a limit parameter that is given and is no integer in 1..100
BadLimit(v) ==
  v # Undef /\ ~(LooksInt(v.s) /\ ParseNat(v.s) >= 1 /\ ParseNat(v.s) <= 100)

\* a list query the transport layer must reject
InvalidList(q) == BadPage(q.page) \/ BadLimit(q.limit) \/ q.filters = BadJson

\* the steps of a handler that come before its first store call
BeforeStore == {"validate", "parse"}

\* C14: a list request with a bad page, a bad limit or unparseable filters,
\* and a create or update whose body fails validation, is answered 400 in
\* the step it arrives, before any store call, and the store is unchanged.
C14_ValidationBeforeStore ==
  [][ \A r \in Reqs :
        ( \/ Starts(r, "list") /\ InvalidList(req'[r].query)
          \/ /\ Starts(r, "create") \/ Starts(r, "update")
             /\ ~validateLead(req'[r].body).ok )
        => /\ resp'[r].status = 400
           /\ pc'[r] = "done"
           /\ loc'[r].step \in BeforeStore
           /\ leads' = leads /\ nextId' = nextId
    ]_vars

\* a list request with limit 101 and a create with score 101 were both
\* answered 400 and the table is as seeded
C14_Witness ==
  \E r, q \in Reqs :
    /\ req[r].kind = "list" /\ req[r].query.limit = Str(<< "1", "0", "1" >>)
    /\ resp[r].status = 400
    /\ req[q].kind = "create" /\ req[q].body.score = Num(101)
    /\ resp[q].status = 400
    /\ leads = SeedLeads

\* the response to a filters parameter that is no filter document
InvalidFilters == Json(400, Err("Invalid filters", "Filters must be valid JSON"))

\* valid JSON that is no mapping from field names to {operator, value}
\* pairs: a number, a string, an array, or a document that maps a text,
\* enum, number or date field to something that is no object
WrongShape(v) ==
  \/ v.t \notin {"doc", "null"}
  \/ /\ v.t = "doc"
     /\ \E n \in (DOMAIN v.f) \cap (FieldNames \ {"is_qualified"}) :
          v.f[n].t # "object"

\* C15: a list request whose filters parameter is valid JSON of the wrong
\* shape is answered 400 'Invalid filters' and never reaches the store.
C15_MalformedDocumentRejected ==
  \A r \in Reqs :
    ( /\ req[r].kind = "list" /\ pc[r] = "done"
      /\ loc[r].err = NoErr
      /\ req[r].query.filters # Undef
      /\ req[r].query.filters.t = "json"
      /\ WrongShape(req[r].query.filters.json) )
    => resp[r] = InvalidFilters /\ loc[r].step \in BeforeStore

\* the keys of the list envelope
EnvelopeKeys == {"data", "page", "limit", "total", "totalPages"}

\* where the list request of slot r stands, read off its state
NoPartialEnvelope(r) ==
  /\ pc[r] = "l_rows"
     => loc[r].step = "count" /\ loc[r].err = NoErr /\ resp[r] = NoResp
  /\ (pc[r] = "done" /\ loc[r].err # NoErr)
     => /\ resp[r].status = 500
        /\ (DOMAIN resp[r].body) \cap EnvelopeKeys = {}
        /\ loc[r].step = "count" => resp[r] = DbError("Failed to count leads")
        /\ loc[r].step = "rows" => resp[r] = DbError("Failed to fetch leads")
  /\ resp[r].status = 200
     => /\ loc[r].step = "rows" /\ loc[r].err = NoErr
        /\ DOMAIN resp[r].body = EnvelopeKeys

\* C16: the row query of a list request is issued only after its count
\* query succeeded; a failed count ends the request without a row query;
\* a failure of either query is answered 500 with none of the envelope's
\* keys; the 200 envelope is sent only after both reads succeeded.
C16_NoPartialEnvelope ==
  /\ [](\A r \in Reqs : req[r].kind = "list" => NoPartialEnvelope(r))
  /\ [][ \A r \in Reqs :
          /\ (Starts(r, "list") /\ loc'[r].err # NoErr) => pc'[r] = "done"
          /\ pc[r] = "done" => pc'[r] = "done" /\ resp'[r] = resp[r]
      ]_vars

\* the count query of one list request failed and the row query of
\* another, and both were answered 500
C16_Witness ==
  \E r, q \in Reqs :
    /\ req[r].kind = "list" /\ req[q].kind = "list"
    /\ pc[r] = "done" /\ loc[r].step = "count" /\ loc[r].err = IoErr
    /\ pc[q] = "done" /\ loc[q].step = "rows" /\ loc[q].err = IoErr
    /\ resp[r].status = 500 /\ resp[q].status = 500

(***************************************************************************)
(* Properties of the compiled clause text and its bound values.            *)
(***************************************************************************)
\* the operators of the fragments buildWhereClause can append
FragmentOps == {"=", ">", "<", "LIKE", "IN", "BETWEEN", "DATE="}

\* the values the document gives the fragment fr: those of its field
Belonging(filters, user, fr) ==
  IF fr.col = "user_id" THEN << Num(user) >>
  ELSE IF fr.col = "is_qualified"
  THEN << Num(IF Truthy(filters.f["is_qualified"]) THEN 1 ELSE 0) >>
  ELSE LET v == filters.f[fr.col].value
       IN  CASE fr.op = "IN" -> v.a
             [] fr.op = "BETWEEN" -> << At(v, 0), At(v, 1) >>
             [] fr.op = "LIKE" -> << Str(<< "%" >> \o ToStr(v) \o << "%" >>) >>
             [] OTHER -> << v >>

\* the bound values at the placeholders of the j-th fragment
BoundAt(w, params, j) ==
  LET from == Placeholders(SubSeq(w, 1, j - 1))
  IN  [k \in 1..w[j].n |-> IF from + k <= Len(params) THEN params[from + k] ELSE Undef]

\* C17: the compiled clause has as many ? as bound values; its first
\* fragment is user_id = ? bound to the tenant id; every fragment is a fixed
\* template over a known column, and the values at its placeholders are
\* those of its field in the document; the row query binds the predicate's
\* values followed by limit, then offset.
C17_PlaceholderAlignment ==
  \A r \in Reqs :
    Compiled(r) =>
      LET w == loc[r].whereClause
          params == loc[r].params
      IN  /\ Placeholders(w) = Len(params)
          /\ w[1] = Frag("user_id", "=", 1)
          /\ params[1] = Num(req[r].user)
          /\ \A j \in 1..Len(w) :
               /\ w[j].col \in FieldNames \cup {"user_id"}
               /\ w[j].op \in FragmentOps
               /\ BoundAt(w, params, j) = Belonging(loc[r].filters, req[r].user, w[j])
          /\ loc[r].queryParams
               = params \o << Num(loc[r].limit), Num(loc[r].offset) >>

\* a listed document whose IN list of two values is followed by another
\* clause: three fragments, four bound values
C17_Witness ==
  \E r \in Reqs :
    /\ Compiled(r) /\ Listed(r)
    /\ Len(loc[r].whereClause) = 3
    /\ loc[r].whereClause[2].op = "IN" /\ loc[r].whereClause[2].n = 2
    /\ Len(loc[r].params) = 4

(***************************************************************************)
(* Properties of the stored fields.                                        *)
(***************************************************************************)
\* C18: every stored lead has a score that is an integer in 0..100, never
\* NULL.
C18_ScoreRange ==
  \A i \in DOMAIN leads :
    /\ leads[i].score.k = "int"
    /\ leads[i].score.n >= 0 /\ leads[i].score.n <= 100

(***************************************************************************)
(* Properties of the callback chains.                                      *)
(***************************************************************************)
\* C19: a request that reached its handler is answered in the end, on
\* every path through its callbacks; it has no response before it is done
\* and exactly the response it was done with ever after.
C19_AnsweredExactlyOnce ==
  /\ \A r \in Reqs : (pc[r] # "idle") ~> (pc[r] = "done" /\ resp[r] # NoResp)
  /\ [](\A r \in Reqs : pc[r] = "done" <=> resp[r] # NoResp)
  /\ [][ \A r \in Reqs : resp[r] # NoResp => resp'[r] = resp[r] ]_vars

\* an update passed its two checks, a delete then removed its lead, and the
\* update was answered 404 by the callback of its write
C19_Witness ==
  \E r, q \in Reqs :
    /\ req[r].kind = "update" /\ pc[r] = "done"
    /\ loc[r].step = "write" /\ resp[r] = NotFound
    /\ req[q].kind = "delete" /\ resp[q].status = 200

\* C20: no step of an update adds a lead; and when the lead of an update
\* that has passed its existence and duplicate checks is gone at its write,
\* the write changes nothing and the update is answered 404 'Lead not
\* found', so the lead stays absent.
C20_NoResurrection ==
  [][ \A r \in Reqs :
        (req'[r].kind = "update" /\ Steps(r))
        => /\ DOMAIN leads' = DOMAIN leads
           /\ ( /\ pc[r] = "u_write"
                /\ IdOf(r) \notin DOMAIN leads
                /\ loc'[r].err # IoErr )
              => /\ pc'[r] = "done"
                 /\ resp'[r].status = 404
                 /\ resp'[r].body.error = "Lead not found"
                 /\ leads' = leads
    ]_vars

\* a delete removed the lead of an update between the update's duplicate
\* check and its write; the update was answered 404 and the lead is absent
C20_Witness ==
  \E r, q \in Reqs :
    /\ req[r].kind = "update" /\ req[q].kind = "delete"
    /\ req[q].id = req[r].id /\ req[q].user = req[r].user
    /\ resp[q].status = 200
    /\ loc[r].step = "write" /\ resp[r].status = 404
    /\ IdOf(r) \notin DOMAIN leads
    /\ IdOf(r) \in DOMAIN SeedLeads

\* the columns a create or an update sets from the request body
WrittenColumns ==
  { "first_name", "last_name", "email", "phone", "company", "city", "state",
    "source", "status", "score", "lead_value", "is_qualified" }

\* the response of slot r holds the lead with this id, owned by the caller,
\* with every column of the body as the write of slot r stored it
CarriesWritten(r, id) ==
  LET lead == resp[r].body.lead
  IN  /\ lead.t = "row"
      /\ lead.row.id = SInt(id)
      /\ lead.row.user_id = SInt(req[r].user)
      /\ \A c \in WrittenColumns : lead.row[c] = Stored(c, loc[r].body[c])

\* C21: every 201 answer to a create and every 200 answer to an update
\* holds a lead whose id is the created or requested id, whose user_id is
\* the caller and whose columns are the values that request wrote, whatever
\* other requests did between the write and the fetch.
C21_SuccessCarriesWrittenLead ==
  \A r \in Reqs :
    /\ (req[r].kind = "create" /\ resp[r].status = 201)
         => CarriesWritten(r, loc[r].lastID)
    /\ (req[r].kind = "update" /\ resp[r].status = 200)
         => CarriesWritten(r, IdOf(r))
====
